---- MODULE Spec2Model ----
(***************************************************************************)
(* Model of rx888_stream: the FX3 firmware uploader (ezusb.c) and the     *)
(* asynchronous bulk-transfer streaming session (my_usb_example.c).       *)
(*                                                                         *)
(* The program is single threaded: main calls ezusb_upload_firmware and   *)
(* then runs the streaming session; transfer_callback runs inside         *)
(* libusb_handle_events on the same thread.  The only asynchronous        *)
(* context is the SIGINT handler sig_hdlr.  pc is the position of main,   *)
(* cb the activation of transfer_callback inside libusb_handle_events.    *)
(***************************************************************************)
EXTENDS Integers, Sequences, FiniteSets, TLC

VARIABLES
    pc,                 \* position of the main thread
    file,               \* the firmware file named by argv[1] (NoFile: no argument)
    firmware,           \* ezusb_install_firmware: the image buffer
    length,             \* ezusb_install_firmware: size_t length
    offset,             \* ezusb_install_firmware: size_t offset
    sublength,          \* ezusb_install_firmware: size_t sublength
    addr,               \* ezusb_install_firmware: size_t addr
    suboffset,          \* ezusb_install_firmware: size_t suboffset
    install_ret,        \* <<value returned by ezusb_install_firmware>>, <<>> before
    upload_ret,         \* <<value returned by ezusb_upload_firmware>>, <<>> before
    msg,                \* ezusb_install_firmware: the diagnostic it returned with
    ctl,                \* firmware control transfers issued so far (device side)
    segs,               \* ezusb_install_firmware: segments accepted so far
    dev_handle,         \* main: the open device handle ("null": NULL)
    claimed,            \* main: interface 0 of dev_handle is claimed
    queuedepth,         \* number of requests to queue
    pktsize,            \* packet size computed from the endpoint descriptors
    databuffers,        \* main: the array of data buffers and its elements
    transfers,          \* main: the array of transfer structures and its elements
    allocfail,          \* main: bool allocfail
    i,                  \* main: loop index
    inflight,           \* per slot: the transfer is submitted to libusb
    xfers_in_progress,  \* volatile int xfers_in_progress
    success_count,      \* number of successful transfers
    failure_count,      \* number of failed transfers
    transfer_size,      \* bytes received in the current window
    transfer_index,     \* completions counted in the current window
    reports,            \* the "Transfer Counts"/"Data Rate" reports printed so far
    delivered,          \* statuses of the completions libusb has delivered so far
    stop_transfers,     \* volatile bool stop_transfers
    cb,                 \* activation of transfer_callback inside libusb_handle_events
    cmds,               \* FX3 commands sent with command_send (device side)
    ub,                 \* undefined behaviour executed so far
    nsub                \* bulk transfers accepted by libusb_submit_transfer so far

uvars == <<file, firmware, length, offset, sublength, addr, suboffset,
           install_ret, upload_ret, msg, ctl, segs>>

statvars == <<success_count, failure_count, transfer_size, transfer_index,
              reports, delivered>>

memvars == <<databuffers, transfers, allocfail, i>>

svars == <<dev_handle, claimed, queuedepth, pktsize, memvars, inflight,
           xfers_in_progress, statvars, stop_transfers, cb, cmds, ub, nsub>>

vars == <<pc, uvars, svars>>

----------------------------------------------------------------------------
(* Bounds of the model                                                     *)

MaxSegments == 2        \* segments per generated firmware image
MaxQueueDepth == 2      \* largest queuedepth explored
MaxSubmits == 4         \* libusb_submit_transfer fails after this many transfers
StreamDepth == 4        \* queuedepth of the streaming session explored alone
WMaxPacketSize == 1024  \* endpoint descriptor: wMaxPacketSize
BMaxBurst == 15         \* companion descriptor: bMaxBurst

----------------------------------------------------------------------------
(* Program constants                                                       *)

FW_CHUNKSIZE == 4 * 1024
max_size == 536 * 1024                  \* 0x86000
reqsize == 8
TwoTo16 == 65536

NoFile == <<"nofile">>
NoValue == "none"

----------------------------------------------------------------------------
(* Firmware images.  An image is a byte string, kept run-length encoded    *)
(* as a sequence of <<byte, count>> runs: payload bytes are never read by  *)
(* the uploader, only handed to the control transfer.                      *)

RECURSIVE ImageSize(_)
ImageSize(img) ==
    IF img = <<>> THEN 0 ELSE Head(img)[2] + ImageSize(Tail(img))

RECURSIVE ByteAt(_, _)
ByteAt(img, k) ==
    IF k < Head(img)[2] THEN Head(img)[1]
    ELSE ByteAt(Tail(img), k - Head(img)[2])

\* A 32-bit unsigned value is kept as <<high 16 bits, low 16 bits>>: the
\* model checker's integers are narrower than 2^32.
ToNat(w) == w[1] * TwoTo16 + w[2]

\* RL32(x): little-endian 32-bit read
RL32(img, x) ==
    <<ByteAt(img, x + 3) * 256 + ByteAt(img, x + 2),
      ByteAt(img, x + 1) * 256 + ByteAt(img, x)>>

\* w << 2 in unsigned (32-bit) arithmetic: the top two bits are lost
Shl2(w) == <<(w[1] * 4 + (w[2] * 4) \div TwoTo16) % TwoTo16, (w[2] * 4) % TwoTo16>>

\* faulty variant: the declared length is held against what was left before
\* the header was consumed
Exceeds_BeforeHeader(w, n) == w[1] >= 32768 \/ ToNat(w) > n + 8

\* w > n for a 32-bit w and an n below 2^31
Exceeds(w, n) == w[1] >= 32768 \/ ToNat(w) > n

MIN(a, b) == IF a < b THEN a ELSE b

----------------------------------------------------------------------------
(* Firmware files offered to the uploader                                  *)

LE32(w) ==
    << <<w[2] % 256, 1>>, <<w[2] \div 256, 1>>,
       <<w[1] % 256, 1>>, <<w[1] \div 256, 1>> >>

Fill(b, n) == IF n = 0 THEN <<>> ELSE << <<b, n>> >>

Signature(b0, b1, b2, b3) == << <<b0, 1>>, <<b1, 1>>, <<b2, 1>>, <<b3, 1>> >>

GoodSignature == Signature(67, 89, 28, 176)      \* 'C' 'Y' 0x1C 0xB0

\* encoded lengths 0, 1, 1024, 1025, 2^30, 2^30 + 1; addresses 0, 0xFFFFF000
EncLens == {<<0, 0>>, <<0, 1>>, <<0, 1024>>, <<0, 1025>>, <<16384, 0>>, <<16384, 1>>}
Addrs == {<<0, 0>>, <<65535, 61440>>}

ByteLength(enc) == ToNat(Shl2(enc))

\* a segment as laid out in the file: two header words, then the payload
\* bytes that are really present
SegmentBytes(s) == LE32(s.enc) \o LE32(s.addr) \o Fill(0, s.present)

FullSegments ==
    {[enc |-> e, addr |-> a, present |-> ByteLength(e)] : e \in EncLens, a \in Addrs}

ShortSegments ==
    {[enc |-> e, addr |-> a, present |-> p] :
        e \in EncLens, a \in Addrs, p \in {0, 4092, 4096}}
    \ {s \in [enc : EncLens, addr : Addrs, present : {0, 4092, 4096}] :
            s.present >= ByteLength(s.enc)}

RECURSIVE Flatten(_)
Flatten(ss) == IF ss = <<>> THEN <<>> ELSE SegmentBytes(Head(ss)) \o Flatten(Tail(ss))

SegmentSeqs(n) == UNION {[1..k -> FullSegments] : k \in 0..n}

Tails == 0..7

\* valid signature, whole segments, then 0..7 trailing bytes (4: checksum)
WholeImages ==
    {GoodSignature \o Flatten(ss) \o Fill(165, t) :
        ss \in SegmentSeqs(MaxSegments), t \in Tails}

\* valid signature, whole segments, then a segment cut short by the end of file
CutImages ==
    {GoodSignature \o Flatten(ss) \o SegmentBytes(s) :
        ss \in SegmentSeqs(MaxSegments - 1), s \in ShortSegments}

OneSegment == SegmentBytes([enc |-> <<0, 1>>, addr |-> <<0, 0>>, present |-> 4])

BadSignatureImages ==
    {Signature(b[1], b[2], b[3], b[4]) \o OneSegment :
        b \in {<<88, 89, 0, 176>>, <<67, 88, 0, 176>>, <<67, 89, 0, 177>>,
               <<89, 67, 176, 0>>}}

ShortImages == {SubSeq(GoodSignature, 1, n) : n \in 0..3}

\* exactly at the size ceiling, and one byte over it
LargeImages ==
    {GoodSignature \o Fill(255, max_size - 4), GoodSignature \o Fill(255, max_size - 3)}

Images == WholeImages \cup CutImages \cup BadSignatureImages \cup ShortImages
            \cup LargeImages

----------------------------------------------------------------------------
(* ezusb.c                                                                 *)

\* the image buffer after free and before malloc: runs no image can hold
Freed == << <<-2, 0>> >>
Unset == << <<-1, 0>> >>

UploadInit ==
    /\ firmware = Unset
    /\ length = 0 /\ offset = 0 /\ suboffset = 0
    /\ sublength = <<0, 0>> /\ addr = <<0, 0>>
    /\ install_ret = <<>>
    /\ upload_ret = <<>>
    /\ msg = NoValue
    /\ ctl = <<>>
    /\ segs = <<>>

\* ezusb_reset: the control transfer that writes set_clear to the CPU
\* control register (request 0xa0, value 0xe600, index 0, one byte)
ezusb_reset(set_clear) ==
    [seg |-> 0, data |-> set_clear, wValue |-> 58880, wIndex |-> 0,
     wLength |-> 1, ret |-> 1]

\* a logged control transfer that is a write of the CPU control register
IsReset(t) == t.wValue = 58880 /\ t.wIndex = 0 /\ t.wLength = 1

\* faulty variant: the CPU is put in reset before the install
BeforeInstall_Reset == <<ezusb_reset(1)>>

\* ezusb_upload_firmware: the control transfers it issues itself between
\* libusb_set_configuration and ezusb_install_firmware (there are none)
BeforeInstall == <<>>

\* ezusb_upload_firmware up to the call of ezusb_install_firmware
UploadFirmware ==
    /\ UNCHANGED svars
    /\ pc = "upload_firmware"
    /\ \E r \in {"ok", "open_failed", "detach_failed", "config_failed"} :
          IF r = "ok"
          THEN /\ pc' = "install_open"
               /\ ctl' = ctl \o BeforeInstall
               /\ UNCHANGED <<file, firmware, length, offset, sublength, addr,
                              suboffset, install_ret, upload_ret, msg, segs>>
          ELSE /\ pc' = "main_uploaded"
               /\ upload_ret' = <<-1>>
               /\ UNCHANGED <<file, firmware, length, offset, sublength, addr,
                              suboffset, install_ret, msg, ctl, segs>>

\* ezusb_install_firmware: open and read the file
InstallOpen ==
    /\ UNCHANGED svars
    /\ pc = "install_open"
    /\ \E io \in {"ok", "fopen_failed", "size_failed", "malloc_failed",
                  "fclose_failed", "short_read"} :
          LET filesize == ImageSize(file)
              err == IF io \in {"fopen_failed", "size_failed"} THEN io
                     ELSE IF filesize > max_size THEN "exceeds_limit"
                     ELSE io
          IN  IF err = "ok"
              THEN /\ firmware' = file
                   /\ length' = filesize
                   /\ offset' = 0
                   /\ pc' = "install_sig"
                   /\ UNCHANGED <<install_ret, msg>>
              ELSE /\ install_ret' = <<-1>>
                   /\ msg' = err
                   /\ pc' = "upload_return"
                   /\ UNCHANGED <<firmware, length, offset>>
    /\ UNCHANGED <<file, sublength, addr, suboffset, upload_ret, ctl, segs>>

\* faulty variant: the marker byte 3 is not compared
SignatureOk_NoMarker(fw, len) ==
    ~ (len < 4 \/ ByteAt(fw, 0) # 67 \/ ByteAt(fw, 1) # 89)

SignatureOk(fw, len) ==
    ~ (len < 4 \/ ByteAt(fw, 0) # 67 \/ ByteAt(fw, 1) # 89 \/ ByteAt(fw, 3) # 176)

\* ezusb_install_firmware: signature check
InstallSignature ==
    /\ UNCHANGED svars
    /\ pc = "install_sig"
    /\ IF SignatureOk(firmware, length)
       THEN /\ offset' = 4
            /\ pc' = "install_loop"
            /\ UNCHANGED <<firmware, install_ret, msg>>
       ELSE /\ firmware' = Freed
            /\ install_ret' = <<-1>>
            /\ msg' = "invalid_signature"
            /\ pc' = "upload_return"
            /\ UNCHANGED offset
    /\ UNCHANGED <<file, length, sublength, addr, suboffset, upload_ret, ctl, segs>>

\* faulty variant: the length word is taken as a byte count
SubLength_Words(fw, off) == RL32(fw, off)

\* sublength = RL32(firmware + offset) << 2, an unsigned (32-bit) shift
SubLength(fw, off) == Shl2(RL32(fw, off))

\* ezusb_install_firmware: head of the segment loop
InstallSegment ==
    /\ UNCHANGED svars
    /\ pc = "install_loop"
    /\ IF ~ (offset < length)
       THEN /\ pc' = "install_end"
            /\ UNCHANGED <<offset, sublength, addr, suboffset, segs>>
       ELSE IF offset + 4 = length
       THEN /\ offset' = offset + 4
            /\ pc' = "install_end"
            /\ UNCHANGED <<sublength, addr, suboffset, segs>>
       ELSE IF length < offset + 8
       THEN /\ pc' = "install_end"
            /\ UNCHANGED <<offset, sublength, addr, suboffset, segs>>
       ELSE /\ sublength' = SubLength(firmware, offset)
            /\ addr' = RL32(firmware, offset + 4)
            /\ offset' = offset + 8
            /\ IF Exceeds(sublength', length - offset')
               THEN /\ pc' = "install_end"
                    /\ UNCHANGED <<suboffset, segs>>
               ELSE /\ suboffset' = 0
                    /\ segs' = Append(segs, [address |-> addr',
                                              byteLength |-> ToNat(sublength')])
                    /\ pc' = "install_chunk"
    /\ UNCHANGED <<file, firmware, length, install_ret, upload_ret, msg, ctl>>

\* faulty variant: the chunk loop sends nothing and does not advance
ChunkSize_Stuck(sublen, suboff) == 0

\* faulty variant: the whole rest of the segment goes into one control transfer
ChunkSize_Unbounded(sublen, suboff) == sublen - suboff

\* chunksize = MIN(sublength - suboffset, FW_CHUNKSIZE)
ChunkSize(sublen, suboff) == MIN(sublen - suboff, FW_CHUNKSIZE)

\* results libusb_control_transfer can give for a chunk: an error, or the
\* number of bytes transferred
ControlResults(chunksize) == {-1, chunksize}

\* faulty variant: the result of the control transfer is not looked at
TransferFailed_Ignored(ret) == FALSE

\* if (ret < 0)
TransferFailed(ret) == ret < 0

\* faulty variant: the high word of the address ignores the carry out of
\* the low word
ChunkTransfer_NoCarry(r) ==
    LET chunksize == ChunkSize(ToNat(sublength), suboffset)
    IN  [seg |-> Len(segs),
         data |-> offset + suboffset,
         wValue |-> (addr[2] + suboffset) % TwoTo16,
         wIndex |-> addr[1],
         wLength |-> chunksize,
         ret |-> r]

\* the control transfer of one chunk, as the device sees it
ChunkTransfer(r) ==
    LET chunksize == ChunkSize(ToNat(sublength), suboffset)
    IN  [seg |-> Len(segs),
         data |-> offset + suboffset,
         wValue |-> (addr[2] + suboffset) % TwoTo16,
         wIndex |-> (addr[1] + (addr[2] + suboffset) \div TwoTo16) % TwoTo16,
         wLength |-> chunksize,
         ret |-> r]

\* ezusb_install_firmware: one pass of the do-while chunk loop
InstallChunk ==
    /\ UNCHANGED svars
    /\ pc = "install_chunk"
    /\ \E r \in ControlResults(ChunkSize(ToNat(sublength), suboffset)) :
          /\ ctl' = Append(ctl, ChunkTransfer(r))
          /\ IF TransferFailed(r)
             THEN /\ firmware' = Freed
                  /\ install_ret' = <<-1>>
                  /\ msg' = "unable_to_send"
                  /\ pc' = "upload_return"
                  /\ UNCHANGED <<offset, suboffset>>
             ELSE /\ suboffset' = suboffset + ChunkSize(ToNat(sublength), suboffset)
                  /\ IF suboffset' < ToNat(sublength)
                     THEN /\ pc' = "install_chunk"
                          /\ UNCHANGED offset
                     ELSE /\ offset' = offset + ToNat(sublength)
                          /\ pc' = "install_loop"
                  /\ UNCHANGED <<firmware, install_ret, msg>>
    /\ UNCHANGED <<file, length, sublength, addr, upload_ret, segs>>

\* ezusb_install_firmware: after the segment loop
InstallEnd ==
    /\ UNCHANGED svars
    /\ pc = "install_end"
    /\ firmware' = Freed
    /\ IF offset < length
       THEN /\ install_ret' = <<-1>>
            /\ msg' = "truncated"
       ELSE /\ install_ret' = <<0>>
            /\ msg' = "upload_done"
    /\ pc' = "upload_return"
    /\ UNCHANGED <<file, length, offset, sublength, addr, suboffset, upload_ret,
                   ctl, segs>>

\* ezusb_upload_firmware: result of ezusb_install_firmware; the locals of
\* ezusb_install_firmware are gone
UploadReturn ==
    /\ UNCHANGED svars
    /\ pc = "upload_return"
    /\ upload_ret' = IF install_ret[1] < 0 THEN <<-1>> ELSE <<0>>
    /\ pc' = "main_uploaded"
    /\ length' = 0 /\ offset' = 0 /\ suboffset' = 0
    /\ sublength' = <<0, 0>> /\ addr' = <<0, 0>>
    /\ install_ret' = <<>>
    /\ msg' = NoValue
    /\ segs' = <<>>
    /\ UNCHANGED <<file, firmware, ctl>>

----------------------------------------------------------------------------
(* my_usb_example.c                                                        *)

Slots == 1..queuedepth

NoCallback == [pc |-> "none"]

Terminated == {"done", "exited", "crashed"}

SessionInit ==
    /\ dev_handle = "null"
    /\ claimed = FALSE
    /\ pktsize = 0
    /\ databuffers = [arr |-> "null", slot |-> [k \in Slots |-> "null"]]
    /\ transfers = [arr |-> "null", slot |-> [k \in Slots |-> "null"]]
    /\ allocfail = FALSE
    /\ i = 0
    /\ inflight = [k \in Slots |-> FALSE]
    /\ xfers_in_progress = 0
    /\ success_count = 0
    /\ failure_count = 0
    /\ transfer_size = 0
    /\ transfer_index = 0
    /\ reports = <<>>
    /\ delivered = <<>>
    /\ stop_transfers = FALSE
    /\ cb = NoCallback
    /\ cmds = <<>>
    /\ ub = {}
    /\ nsub = 0

\* sig_hdlr: may run between any two steps of the main thread
SigHdlr ==
    /\ pc \notin Terminated
    /\ stop_transfers' = TRUE
    /\ UNCHANGED <<pc, uvars, dev_handle, claimed, queuedepth, pktsize, memvars,
                   inflight, xfers_in_progress, statvars, cb, cmds, ub, nsub>>

\* main: libusb_init
MainInit ==
    /\ pc = "main_init"
    /\ \E ret \in {0, -1} : pc' = IF ret # 0 THEN "exited" ELSE "main_args"
    /\ UNCHANGED <<uvars, svars>>

\* main: if (argv[1]) open the boot-loader device and upload the firmware
MainArgs ==
    /\ pc = "main_args"
    /\ IF file # NoFile
       THEN \E found \in BOOLEAN :
               /\ dev_handle' = IF found THEN "f3" ELSE "null"
               /\ pc' = IF found THEN "upload_firmware" ELSE "close"
       ELSE /\ pc' = "main_open"
            /\ UNCHANGED dev_handle
    /\ UNCHANGED <<uvars, claimed, queuedepth, pktsize, memvars, inflight,
                   xfers_in_progress, statvars, stop_transfers, cb, cmds, ub, nsub>>

\* main: both branches on the result of ezusb_upload_firmware, then sleep(2)
MainUploaded ==
    /\ pc = "main_uploaded"
    /\ pc' = "main_open"
    /\ UNCHANGED <<uvars, svars>>

\* main: open the device that runs the firmware
MainOpen ==
    /\ pc = "main_open"
    /\ \E found \in BOOLEAN :
          /\ dev_handle' = IF found THEN "f1" ELSE "null"
          /\ pc' = IF found THEN "main_claim" ELSE "close"
    /\ UNCHANGED <<uvars, claimed, queuedepth, pktsize, memvars, inflight,
                   xfers_in_progress, statvars, stop_transfers, cb, cmds, ub, nsub>>

\* main: claim the interface and compute pktsize
MainClaim ==
    /\ pc = "main_claim"
    /\ \E ret \in {0, -1} :
          IF ret # 0
          THEN /\ pc' = "end"
               /\ UNCHANGED <<claimed, pktsize>>
          ELSE /\ claimed' = TRUE
               /\ pktsize' = WMaxPacketSize * (BMaxBurst + 1)
               /\ pc' = "main_calloc"
    /\ UNCHANGED <<uvars, dev_handle, queuedepth, memvars, inflight,
                   xfers_in_progress, statvars, stop_transfers, cb, cmds, ub, nsub>>

\* main: calloc of the two arrays
MainCalloc ==
    /\ pc = "main_calloc"
    /\ \E d \in {"alloc", "null"}, t \in {"alloc", "null"} :
          /\ databuffers' = [databuffers EXCEPT !.arr = d]
          /\ transfers' = [transfers EXCEPT !.arr = t]
          /\ IF d # "null" /\ t # "null"
             THEN /\ pc' = "main_alloc"
                  /\ UNCHANGED allocfail
             ELSE /\ allocfail' = TRUE
                  /\ pc' = "main_allocfail"
    /\ i' = 0
    /\ UNCHANGED <<uvars, dev_handle, claimed, queuedepth, pktsize, inflight,
                   xfers_in_progress, statvars, stop_transfers, cb, cmds, ub, nsub>>

\* main: one pass of the allocation loop
MainAlloc ==
    /\ pc = "main_alloc"
    /\ IF i < queuedepth
       THEN \E d \in {"alloc", "null"}, t \in {"alloc", "null"} :
               /\ databuffers' = [databuffers EXCEPT !.slot[i + 1] = d]
               /\ transfers' = [transfers EXCEPT !.slot[i + 1] = t]
               /\ IF d = "null" \/ t = "null"
                  THEN /\ allocfail' = TRUE
                       /\ pc' = "main_allocfail"
                       /\ UNCHANGED i
                  ELSE /\ i' = i + 1
                       /\ pc' = "main_alloc"
                       /\ UNCHANGED allocfail
       ELSE /\ pc' = "main_allocfail"
            /\ UNCHANGED memvars
    /\ UNCHANGED <<uvars, dev_handle, claimed, queuedepth, pktsize, inflight,
                   xfers_in_progress, statvars, stop_transfers, cb, cmds, ub, nsub>>

\* free_transfer_buffers on one of the two arrays
FreeArray(a) ==
    IF a.arr = "null" THEN a
    ELSE [arr |-> "freed",
          slot |-> [k \in DOMAIN a.slot |->
                        IF a.slot[k] = "null" THEN "null" ELSE "freed"]]

\* free_transfer_buffers reads and frees an array that is already freed
FreesFreed(d, t) == d.arr = "freed" \/ t.arr = "freed"

\* main: if (allocfail) free_transfer_buffers(...)
MainAllocFail ==
    /\ pc = "main_allocfail"
    /\ IF allocfail
       THEN /\ databuffers' = FreeArray(databuffers)
            /\ transfers' = FreeArray(transfers)
       ELSE UNCHANGED <<databuffers, transfers>>
    /\ i' = 0
    /\ pc' = "main_submit"
    /\ UNCHANGED <<uvars, dev_handle, claimed, queuedepth, pktsize, allocfail,
                   inflight, xfers_in_progress, statvars, stop_transfers, cb, cmds,
                   ub, nsub>>

\* transfers[k] or databuffers[k] is read through a NULL or freed array, or
\* the transfer structure filled and submitted is not an allocated one
Dangling(k) ==
    \/ databuffers.arr # "alloc"
    \/ transfers.arr # "alloc"
    \/ transfers.slot[k] # "alloc"

\* results libusb_submit_transfer can give
SubmitResults == IF nsub < MaxSubmits THEN {0, -1} ELSE {-1}

\* faulty variant: the initial loop counts a transfer libusb refused
InitialSubmitted_Unchecked(rStatus, n) == n + 1

\* main: if (rStatus == 0) xfers_in_progress++
InitialSubmitted(rStatus, n) == IF rStatus = 0 THEN n + 1 ELSE n

\* main: one pass of the initial fill-and-submit loop
MainSubmit ==
    /\ pc = "main_submit"
    /\ IF i < queuedepth
       THEN \E outcome \in (IF Dangling(i + 1) THEN {"crash", "proceed"} ELSE {"defined"}) :
               IF outcome = "crash"
               THEN /\ pc' = "crashed"
                    /\ ub' = ub \cup {"use_released"}
                    /\ UNCHANGED <<i, inflight, xfers_in_progress, nsub>>
               ELSE \E rStatus \in SubmitResults :
                       /\ ub' = IF outcome = "proceed" THEN ub \cup {"use_released"} ELSE ub
                       /\ xfers_in_progress' =
                             InitialSubmitted(rStatus, xfers_in_progress)
                       /\ IF rStatus = 0
                          THEN /\ inflight' = [inflight EXCEPT ![i + 1] = TRUE]
                               /\ nsub' = nsub + 1
                          ELSE UNCHANGED <<inflight, nsub>>
                       /\ i' = i + 1
                       /\ pc' = "main_submit"
       ELSE /\ pc' = "main_startadc"
            /\ UNCHANGED <<i, inflight, xfers_in_progress, nsub, ub>>
    /\ UNCHANGED <<uvars, dev_handle, claimed, queuedepth, pktsize, databuffers,
                   transfers, allocfail, statvars, stop_transfers, cb, cmds>>

\* faulty variant: the command is not put on the wire
command_send_Dropped(cmd) == UNCHANGED cmds

\* command_send: one vendor control transfer; main ignores its result
command_send(cmd) == cmds' = Append(cmds, cmd)

\* main: command_send(dev_handle, STARTADC, samplerate)
MainStartAdc ==
    /\ pc = "main_startadc"
    /\ command_send("STARTADC")
    /\ pc' = "main_startfx3"
    /\ UNCHANGED <<uvars, dev_handle, claimed, queuedepth, pktsize, memvars, inflight,
                   xfers_in_progress, statvars, stop_transfers, cb, ub, nsub>>

\* main: command_send(dev_handle, STARTFX3, 0)
MainStartFx3 ==
    /\ pc = "main_startfx3"
    /\ command_send("STARTFX3")
    /\ pc' = "dispatch"
    /\ UNCHANGED <<uvars, dev_handle, claimed, queuedepth, pktsize, memvars, inflight,
                   xfers_in_progress, statvars, stop_transfers, cb, ub, nsub>>

\* completions libusb can report: <<status, actual_length>>
Completions ==
    {<<"COMPLETED", reqsize * pktsize>>, <<"TIMED_OUT", pktsize>>}

\* libusb_handle_events: a submitted transfer completes and its callback is called
Deliver(k) ==
    /\ pc \in {"dispatch", "drain_dispatch"}
    /\ cb.pc = "none"
    /\ inflight[k]
    /\ inflight' = [inflight EXCEPT ![k] = FALSE]
    /\ \E c \in Completions :
          /\ cb' = [pc |-> "entry", slot |-> k, status |-> c[1],
                    actual_length |-> c[2]]
          /\ delivered' = Append(delivered, c[1])
    /\ UNCHANGED <<pc, uvars, dev_handle, claimed, queuedepth, pktsize, memvars,
                   xfers_in_progress, success_count, failure_count, transfer_size,
                   transfer_index, reports, stop_transfers, cmds, ub, nsub>>

\* libusb_handle_events returns to the loop that called it
HandleEventsReturn ==
    /\ pc \in {"dispatch", "drain_dispatch"}
    /\ cb.pc = "none"
    /\ pc' = IF pc = "dispatch" THEN "loop_check" ELSE "drain_check"
    /\ UNCHANGED <<uvars, svars>>

\* faulty variant: the callback does not count the completion
Completed_NotCounted(n) == n

\* xfers_in_progress--
Completed(n) == n - 1

\* faulty variant: a failed resubmission is counted as in flight
Submitted_Unchecked(ret, n) == n + 1

\* if (libusb_submit_transfer(transfer) == 0) xfers_in_progress++
Submitted(ret, n) == IF ret = 0 THEN n + 1 ELSE n

\* faulty variant: the window is one completion longer
WindowFull_OneLate(index) == index = queuedepth + 1

\* if (transfer_index == queuedepth)
WindowFull(index) == index = queuedepth

\* faulty variant: the bytes of a failed transfer are counted too
TransferSize_AnyStatus(status, actual_length) == actual_length

\* int size = 0; ... else size = transfer->actual_length
TransferSize(status, actual_length) ==
    IF status # "COMPLETED" THEN 0 ELSE actual_length

\* transfer_callback: the counter and the statistics
CallbackStats ==
    /\ cb.pc = "entry"
    /\ xfers_in_progress' = Completed(xfers_in_progress)
    /\ LET size == TransferSize(cb.status, cb.actual_length)
           report == WindowFull(transfer_index + 1)
       IN  /\ failure_count' = IF cb.status # "COMPLETED" THEN failure_count + 1
                               ELSE failure_count
           /\ success_count' = IF cb.status # "COMPLETED" THEN success_count
                               ELSE success_count + 1
           /\ reports' = IF report
                         THEN Append(reports, [pass |-> success_count',
                                               fail |-> failure_count',
                                               bytes |-> transfer_size + size])
                         ELSE reports
           /\ transfer_size' = IF report THEN 0 ELSE transfer_size + size
           /\ transfer_index' = IF report THEN 0 ELSE transfer_index + 1
    /\ cb' = [cb EXCEPT !.pc = "check"]
    /\ UNCHANGED <<pc, uvars, dev_handle, claimed, queuedepth, pktsize, memvars,
                   inflight, delivered, stop_transfers, cmds, ub, nsub>>

\* faulty variant: a transfer that failed is not submitted again
CallbackCheck_DropFailed ==
    /\ cb.pc = "check"
    /\ cb' = IF ~ stop_transfers /\ cb.status = "COMPLETED"
             THEN [cb EXCEPT !.pc = "submit"] ELSE NoCallback
    /\ UNCHANGED <<pc, uvars, dev_handle, claimed, queuedepth, pktsize, memvars,
                   inflight, xfers_in_progress, statvars, stop_transfers, cmds, ub,
                   nsub>>

\* transfer_callback: if (!stop_transfers)
CallbackCheck ==
    /\ cb.pc = "check"
    /\ cb' = IF ~ stop_transfers THEN [cb EXCEPT !.pc = "submit"] ELSE NoCallback
    /\ UNCHANGED <<pc, uvars, dev_handle, claimed, queuedepth, pktsize, memvars,
                   inflight, xfers_in_progress, statvars, stop_transfers, cmds, ub,
                   nsub>>

\* faulty variant: a refused transfer goes back to be submitted again
CallbackSubmit_Retry ==
    /\ cb.pc = "submit"
    /\ \E ret \in SubmitResults :
          /\ xfers_in_progress' = Submitted(ret, xfers_in_progress)
          /\ IF ret = 0
             THEN /\ inflight' = [inflight EXCEPT ![cb.slot] = TRUE]
                  /\ nsub' = nsub + 1
                  /\ cb' = NoCallback
             ELSE /\ cb' = [cb EXCEPT !.pc = "check"]
                  /\ UNCHANGED <<inflight, nsub>>
    /\ UNCHANGED <<pc, uvars, dev_handle, claimed, queuedepth, pktsize, memvars,
                   statvars, stop_transfers, cmds, ub>>

\* transfer_callback: libusb_submit_transfer and the counter
CallbackSubmit ==
    /\ cb.pc = "submit"
    /\ \E ret \in SubmitResults :
          /\ xfers_in_progress' = Submitted(ret, xfers_in_progress)
          /\ IF ret = 0
             THEN /\ inflight' = [inflight EXCEPT ![cb.slot] = TRUE]
                  /\ nsub' = nsub + 1
             ELSE UNCHANGED <<inflight, nsub>>
    /\ cb' = NoCallback
    /\ UNCHANGED <<pc, uvars, dev_handle, claimed, queuedepth, pktsize, memvars,
                   statvars, stop_transfers, cmds, ub>>

\* main: while (stop_transfers != true)
LoopCheck ==
    /\ pc = "loop_check"
    /\ pc' = IF stop_transfers # TRUE THEN "dispatch" ELSE "main_stopping"
    /\ UNCHANGED <<uvars, svars>>

\* main: "Test complete", stop_transfers = true
MainStopping ==
    /\ pc = "main_stopping"
    /\ stop_transfers' = TRUE
    /\ pc' = "drain_check"
    /\ UNCHANGED <<uvars, dev_handle, claimed, queuedepth, pktsize, memvars, inflight,
                   xfers_in_progress, statvars, cb, cmds, ub, nsub>>

\* main: while (xfers_in_progress != 0)
DrainCheck ==
    /\ pc = "drain_check"
    /\ pc' = IF xfers_in_progress # 0 THEN "drain_dispatch" ELSE "main_free"
    /\ UNCHANGED <<uvars, svars>>

\* main: free_transfer_buffers after the drain loop
MainFree ==
    /\ pc = "main_free"
    /\ \E outcome \in (IF FreesFreed(databuffers, transfers)
                      THEN {"crash", "proceed"} ELSE {"defined"}) :
          /\ ub' = IF outcome = "defined" THEN ub ELSE ub \cup {"double_free"}
          /\ IF outcome = "crash"
             THEN /\ pc' = "crashed"
                  /\ UNCHANGED <<databuffers, transfers>>
             ELSE /\ databuffers' = FreeArray(databuffers)
                  /\ transfers' = FreeArray(transfers)
                  /\ pc' = "main_stopfx3"
    /\ UNCHANGED <<uvars, dev_handle, claimed, queuedepth, pktsize, allocfail, i,
                   inflight, xfers_in_progress, statvars, stop_transfers, cb, cmds,
                   nsub>>

\* main: command_send(dev_handle, STOPFX3, 0)
MainStopFx3 ==
    /\ pc = "main_stopfx3"
    /\ command_send("STOPFX3")
    /\ pc' = "end"
    /\ UNCHANGED <<uvars, dev_handle, claimed, queuedepth, pktsize, memvars, inflight,
                   xfers_in_progress, statvars, stop_transfers, cb, ub, nsub>>

\* main: end: release the interface
MainEnd ==
    /\ pc = "end"
    /\ claimed' = FALSE
    /\ pc' = "close"
    /\ UNCHANGED <<uvars, dev_handle, queuedepth, pktsize, memvars, inflight,
                   xfers_in_progress, statvars, stop_transfers, cb, cmds, ub, nsub>>

\* main: close: close the device, libusb_exit, return 0
MainClose ==
    /\ pc = "close"
    /\ dev_handle' = "null"
    /\ pc' = "done"
    /\ UNCHANGED <<uvars, claimed, queuedepth, pktsize, memvars, inflight,
                   xfers_in_progress, statvars, stop_transfers, cb, cmds, ub, nsub>>

----------------------------------------------------------------------------
(* Specifications                                                          *)

NextUpload ==
    \/ UploadFirmware
    \/ InstallOpen
    \/ InstallSignature
    \/ InstallSegment
    \/ InstallChunk
    \/ InstallEnd
    \/ UploadReturn

\* main from the opening of the streaming device on
NextStream ==
    \/ MainOpen
    \/ MainClaim
    \/ MainCalloc
    \/ MainAlloc
    \/ MainAllocFail
    \/ MainSubmit
    \/ MainStartAdc
    \/ MainStartFx3
    \/ \E k \in Slots : Deliver(k)
    \/ HandleEventsReturn
    \/ CallbackStats
    \/ CallbackCheck
    \/ CallbackSubmit
    \/ LoopCheck
    \/ MainStopping
    \/ DrainCheck
    \/ MainFree
    \/ MainStopFx3
    \/ MainEnd
    \/ MainClose

NextSession ==
    \/ MainInit
    \/ MainArgs
    \/ MainUploaded
    \/ NextStream

Next == NextUpload \/ NextSession \/ SigHdlr

\* the uploader alone, on every generated firmware file
InitUpload ==
    /\ pc = "upload_firmware"
    /\ file \in Images
    /\ UploadInit
    /\ queuedepth = 1
    /\ SessionInit

SpecUpload == InitUpload /\ [][NextUpload]_vars

\* firmware files given to the whole program
MainFiles ==
    {NoFile,
     GoodSignature \o OneSegment,
     Signature(67, 89, 0, 177) \o OneSegment}

\* the whole program, from the start of main
Init ==
    /\ pc = "main_init"
    /\ file \in MainFiles
    /\ UploadInit
    /\ queuedepth \in 1..MaxQueueDepth
    /\ SessionInit

Spec == Init /\ [][Next]_vars

\* the streaming session alone (no firmware file on the command line), with a
\* queue of StreamDepth requests
InitStream ==
    /\ pc = "main_open"
    /\ file = NoFile
    /\ UploadInit
    /\ queuedepth = StreamDepth
    /\ SessionInit

SpecStream == InitStream /\ [][NextStream \/ SigHdlr]_vars

\* the main thread keeps running, and libusb_handle_events eventually
\* delivers the completion of every submitted transfer
Fairness ==
    /\ WF_vars(NextUpload \/ NextSession)
    /\ SF_vars(\E k \in Slots : Deliver(k))

SpecLive == Spec /\ Fairness

----------------------------------------------------------------------------
(* Streaming session: the in-flight counter                                *)

\* C1: in every reachable state the in-flight counter xfers_in_progress is
\* between 0 and queuedepth inclusive, whatever the results of the initial
\* submissions, the completions, the resubmissions and the arrival of the
\* stop signal.
C1_InFlightInRange ==
    /\ xfers_in_progress >= 0
    /\ xfers_in_progress <= queuedepth

\* the queue is full again after a resubmission, a failed completion has
\* been seen and the stop signal has arrived
C1_Witness ==
    /\ xfers_in_progress = queuedepth
    /\ nsub > queuedepth
    /\ failure_count > 0
    /\ stop_transfers

----------------------------------------------------------------------------
(* Streaming session: the stop signal                                      *)

\* the dispatch loop is running or draining: the initial batch is submitted
Running ==
    pc \in {"main_startadc", "main_startfx3", "dispatch", "loop_check",
            "main_stopping", "drain_check", "drain_dispatch"}

\* the drain loop has exited with nothing in flight
Drained == pc = "main_free" /\ xfers_in_progress = 0

\* C2: once the stop signal is set in a running session, the in-flight
\* count eventually reaches 0, the drain loop exits and the session is
\* Drained, wherever the signal arrived (also inside a completion callback),
\* provided the main thread keeps running and every submitted transfer
\* eventually completes.
C2_StopDrains == (stop_transfers /\ Running) ~> Drained

\* the stop signal is set while a callback is past its check of the flag
\* and about to resubmit
C2_Witness ==
    /\ stop_transfers
    /\ pc = "dispatch"
    /\ cb.pc = "submit"

\* C3: no bulk transfer is submitted by the completion callback in a state
\* where the stop flag is already true, in any interleaving of sig_hdlr
\* with the callback's check-then-resubmit step (stated for runs whose
\* allocations all succeeded).
C3_NoSubmitAfterStop == [][CallbackSubmit /\ ub = {} => ~ stop_transfers]_vars

----------------------------------------------------------------------------
(* Firmware upload                                                         *)

\* the image fails the checks made before the segment loop
Rejected(img) ==
    \/ ImageSize(img) < 4
    \/ ByteAt(img, 0) # 67
    \/ ByteAt(img, 1) # 89
    \/ ByteAt(img, 3) # 176
    \/ ImageSize(img) > max_size

\* offset of the first segment header, following the declared lengths from
\* off, whose byte length exceeds the bytes left after it; -1 if there is none
RECURSIVE CutOffset(_, _)
CutOffset(img, off) ==
    IF ImageSize(img) < off + 8 THEN -1
    ELSE IF Exceeds(Shl2(RL32(img, off)), ImageSize(img) - (off + 8)) THEN off
    ELSE CutOffset(img, off + 8 + ToNat(Shl2(RL32(img, off))))

\* C4: for an image with a valid signature in which a segment header
\* declares more bytes than remain after it (also when nothing remains),
\* upload returns the truncation error, never success, and when no control
\* transfer failed it has issued transfers only for the segments before
\* that header.
C4_TruncationReported ==
    (pc = "upload_return" /\ firmware = Freed /\ ~ Rejected(file)
        /\ CutOffset(file, 4) >= 0)
    => /\ install_ret = <<-1>>
       /\ (\A j \in DOMAIN ctl : ctl[j].ret >= 0)
            => /\ msg = "truncated"
               /\ \A j \in DOMAIN ctl :
                     ctl[j].data + ctl[j].wLength <= CutOffset(file, 4)

\* well-formed images: valid signature, whole segments whose encoded
\* length times 4 is the number of payload bytes, optional checksum
WellFormedImages ==
    {GoodSignature \o Flatten(ss) \o Fill(165, t) :
        ss \in {q \in SegmentSeqs(MaxSegments) :
                    \A k \in DOMAIN q : q[k].enc[1] = 0},
        t \in {0, 4}}

\* number of control transfers issued for segment k
Transfers(k) == Cardinality({j \in DOMAIN ctl : ctl[j].seg = k})

Ceil(n) == (n + FW_CHUNKSIZE - 1) \div FW_CHUNKSIZE

\* file offset behind the last of the segments ss: signature, then for each
\* segment two header words and its payload
RECURSIVE SegmentsEnd(_)
SegmentsEnd(ss) ==
    IF ss = <<>> THEN 4
    ELSE SegmentsEnd(SubSeq(ss, 1, Len(ss) - 1)) + 8 + ss[Len(ss)].byteLength

\* C5 as claimed: a successful upload of a well-formed image has issued
\* exactly ceil(byteLength / 4096) control transfers for each segment, hence
\* none for a segment of byte length 0.
C5_CeilTransfers ==
    (pc = "upload_return" /\ install_ret = <<0>> /\ file \in WellFormedImages)
    => \A k \in DOMAIN segs : Transfers(k) = Ceil(segs[k].byteLength)

\* C5 amended: a successful upload of a well-formed image has issued
\* exactly ceil(byteLength / 4096) control transfers for each segment of
\* non-zero byte length, exactly one (of length 0) for a segment of byte
\* length 0, and none for the checksum.
C5_ChunksPerSegment ==
    (pc = "upload_return" /\ install_ret = <<0>> /\ file \in WellFormedImages)
    => /\ \A k \in DOMAIN segs :
            Transfers(k) = IF segs[k].byteLength = 0 THEN 1
                           ELSE Ceil(segs[k].byteLength)
       /\ \A j \in DOMAIN ctl :
            /\ ctl[j].seg \in DOMAIN segs
            /\ ctl[j].data + ctl[j].wLength <= SegmentsEnd(segs)

\* a well-formed image with an empty segment and a two-chunk segment has
\* been uploaded
C5_Witness ==
    /\ pc = "upload_return" /\ install_ret = <<0>> /\ file \in WellFormedImages
    /\ \E k \in DOMAIN segs : segs[k].byteLength = 0
    /\ \E k \in DOMAIN segs : segs[k].byteLength = FW_CHUNKSIZE + 4
    /\ length = offset /\ length = 4 + 8 + 8 + FW_CHUNKSIZE + 4 + 4

\* C6: an image shorter than 4 bytes, or with byte 0 not 'C', byte 1 not 'Y'
\* or byte 3 not 0xB0, or larger than 0x86000 bytes, makes the upload fail
\* with no firmware control transfer issued.
C6_RejectedUntouched ==
    Rejected(file)
    => /\ ctl = <<>>
       /\ pc \notin {"install_loop", "install_chunk", "install_end"}
       /\ pc = "upload_return" => install_ret = <<-1>>
       /\ pc = "main_uploaded" => upload_ret = <<-1>>

\* an image of full length whose byte 3 is not the marker has been refused
C6_Witness ==
    /\ pc = "upload_return"
    /\ msg = "invalid_signature"
    /\ ImageSize(file) >= 4
    /\ ByteAt(file, 0) = 67 /\ ByteAt(file, 1) = 89 /\ ByteAt(file, 3) # 176

\* C7: a failed chunk control transfer is the last one the upload issues:
\* the segment loop is left at once and the upload returns failure.
C7_AbortOnFailure ==
    \A j \in DOMAIN ctl :
        ctl[j].ret < 0
        => /\ j = Len(ctl)
           /\ pc \notin {"install_loop", "install_chunk", "install_end"}
           /\ pc = "upload_return" => install_ret = <<-1>>
           /\ pc = "main_uploaded" => upload_ret = <<-1>>

\* the first chunk of a two-chunk segment failed after an earlier segment
\* was uploaded, and the rest of the segment was not sent
C7_Witness ==
    /\ pc = "upload_return"
    /\ Len(ctl) >= 2
    /\ ctl[Len(ctl)].ret < 0
    /\ ToNat(sublength) > suboffset + ctl[Len(ctl)].wLength

----------------------------------------------------------------------------
(* The program run                                                         *)

\* C8: after a failed firmware upload no streaming session is started: no
\* interface is claimed, no bulk transfer is submitted and no command is
\* sent.
C8_FailedUploadEndsRun ==
    upload_ret = <<-1>> => (~ claimed /\ nsub = 0 /\ cmds = <<>>)

\* C9: after an allocation failure session start-up is aborted: what was
\* allocated is released once, nothing released is used, no bulk transfer
\* is filled or submitted and the dispatch loop is not entered.
C9_AllocFailAborts ==
    allocfail
    => /\ ub = {}
       /\ nsub = 0
       /\ ~ Running
       /\ pc # "crashed"

\* C10 as claimed: both start commands are issued before the first bulk
\* transfer is submitted, and stop-streaming only after the in-flight count
\* has reached zero and the buffers are released (stated for runs whose
\* allocations all succeeded).
C10_StartBeforeSubmit ==
    ub = {}
    => /\ nsub > 0 => (Len(cmds) >= 2 /\ cmds[1] = "STARTADC" /\ cmds[2] = "STARTFX3")
       /\ Len(cmds) = 3
            => (xfers_in_progress = 0 /\ databuffers.arr # "alloc"
                    /\ transfers.arr # "alloc")

\* C10 amended: start-acquisition and then start-streaming are issued after
\* the initial batch of bulk transfers has been submitted and before the
\* dispatch loop is entered; stop-streaming is issued only after the
\* in-flight count has reached zero and the buffers are released.
C10_StartAfterSubmit ==
    /\ \E n \in 0..3 : cmds = SubSeq(<<"STARTADC", "STARTFX3", "STOPFX3">>, 1, n)
    /\ cmds # <<>> => (i = queuedepth /\ pc \notin {"main_alloc", "main_allocfail",
                                                    "main_submit"})
    /\ pc \in {"dispatch", "loop_check", "main_stopping", "drain_check",
               "drain_dispatch", "main_free"} => Len(cmds) = 2
    /\ pc \in {"end", "close", "done"} /\ nsub > 0 => Len(cmds) = 3
    /\ Len(cmds) = 3
         => (xfers_in_progress = 0 /\ databuffers.arr # "alloc"
                 /\ transfers.arr # "alloc")

\* a session that submitted transfers and resubmitted one has been drained
\* and stop-streaming has been sent
C10_Witness ==
    /\ Len(cmds) = 3
    /\ nsub > queuedepth
    /\ ub = {}

-----------------------------------------------------------------------------
\* C11 as stated: an upload run asserts the CPU reset (value 0xE600, index 0,
\* one byte, payload 1) before its first firmware chunk and clears it (payload
\* 0) after the last chunk of a successful upload.  ezusb_reset is never
\* called, so the first control transfer of a run is already a chunk.
C11_ResetAroundChunks ==
    /\ ctl # <<>> => IsReset(ctl[1]) /\ ctl[1].data = 1
    /\ (pc = "main_uploaded" /\ upload_ret = <<0>>) =>
          /\ ctl # <<>>
          /\ IsReset(ctl[Len(ctl)])
          /\ ctl[Len(ctl)].data = 0

\* C11: an upload run never writes the CPU control register: every control
\* transfer it issues is a firmware chunk of a parsed segment, so nothing
\* precedes the first chunk and nothing follows the last one.
C11_NoResetTransfer ==
    \A j \in 1..Len(ctl) : ~ IsReset(ctl[j]) /\ ctl[j].seg \in 1..MaxSegments

C11_Witness ==
    /\ pc = "main_uploaded"
    /\ upload_ret = <<0>>
    /\ Len(ctl) >= 2
    /\ ctl[1].seg = 1 /\ ctl[Len(ctl)].seg = 2

-----------------------------------------------------------------------------
\* file offset of the payload of the k-th parsed segment, and the offset of
\* the logged chunk t inside the payload of its segment
PayloadStart(k) == SegmentsEnd(SubSeq(segs, 1, k)) - segs[k].byteLength

ChunkOffset(t) == t.data - PayloadStart(t.seg)

\* C12: every chunk is addressed at segment.address + chunkOffset, low 16 bits
\* in the value field and the next 16 bits in the index field; the chunks of a
\* segment go out at chunkOffset 0, 4096, 8192, ..., each at most 4096 bytes
\* and only the last one shorter, and after a successful upload they add up to
\* the byteLength of the segment; the segments are those of the file headers,
\* taken in file order (stated while the
\* parse of ezusb_install_firmware is still there to compare with).
C12_ChunkAddressing ==
    pc # "main_uploaded" =>
        /\ \A k \in 1..Len(segs) :
              /\ segs[k].address = RL32(file, PayloadStart(k) - 4)
              /\ segs[k].byteLength = ToNat(SubLength(file, PayloadStart(k) - 8))
        /\ \A j \in 1..Len(ctl) :
              LET t == ctl[j]
                  a == segs[t.seg].address
                  sum == a[2] + ChunkOffset(t)
              IN  /\ t.wValue = sum % TwoTo16
                  /\ t.wIndex = (a[1] + sum \div TwoTo16) % TwoTo16
                  /\ t.wLength <= FW_CHUNKSIZE
                  /\ ChunkOffset(t) + t.wLength <= segs[t.seg].byteLength
                  /\ IF j = 1
                     THEN t.seg = 1 /\ ChunkOffset(t) = 0
                     ELSE LET u == ctl[j - 1]
                          IN  /\ u.ret >= 0
                              /\ IF u.seg = t.seg
                                 THEN /\ u.wLength = FW_CHUNKSIZE
                                      /\ ChunkOffset(t) = ChunkOffset(u) + FW_CHUNKSIZE
                                 ELSE /\ t.seg = u.seg + 1
                                      /\ ChunkOffset(t) = 0
                                      /\ ChunkOffset(u) + u.wLength
                                            = segs[u.seg].byteLength
        /\ (pc = "upload_return" /\ install_ret = <<0>>) =>
              /\ segs # <<>> => ctl # <<>> /\ ctl[Len(ctl)].seg = Len(segs)
              /\ ctl # <<>> =>
                    LET u == ctl[Len(ctl)]
                    IN  ChunkOffset(u) + u.wLength = segs[u.seg].byteLength

\* a second chunk whose address carries from the value into the index field
C12_Witness ==
    /\ pc = "upload_return" /\ install_ret = <<0>>
    /\ Len(segs) = 2
    /\ \E j \in 2..Len(ctl) :
          /\ segs[ctl[j].seg].address = <<65535, 61440>>
          /\ ctl[j].seg = ctl[j - 1].seg
          /\ ChunkOffset(ctl[j]) = FW_CHUNKSIZE
          /\ ctl[j].wLength = 4
          /\ ctl[j].wValue = 0 /\ ctl[j].wIndex = 0

-----------------------------------------------------------------------------
\* completion callbacks that have passed their statistics: every delivered
\* completion but the one whose callback has just been entered
Counted == Len(delivered) - IF cb.pc = "entry" THEN 1 ELSE 0

\* C13: a report with a window reset is made at every queuedepth-th counted
\* completion, whatever its status, and at no other one; right after a report
\* the window byte total and the window transfer count are zero, and between
\* callbacks the window transfer count stays in 0 .. queuedepth - 1.
C13_WindowReport ==
    /\ Len(reports) = Counted \div queuedepth
    /\ transfer_index = Counted % queuedepth
    /\ transfer_index \in 0..(queuedepth - 1)
    /\ transfer_index = 0 => transfer_size = 0

\* two windows of two completions, of both kinds, have been reported
C13_Witness ==
    /\ queuedepth = 2
    /\ Counted = 4
    /\ Len(reports) = 2
    /\ reports[2].pass >= 1 /\ reports[2].fail >= 1
    /\ transfer_index = 0 /\ transfer_size = 0

\* the statuses of delivered alternate between success and failure
Alternating ==
    \A j \in 1..(Len(delivered) - 1) :
       (delivered[j] = "COMPLETED") # (delivered[j + 1] = "COMPLETED")

\* C14: every completion callback increments exactly one of success_count and
\* failure_count, so their sum is the number of completions counted; a
\* successful completion adds its actual_length to the window byte total (or
\* to the total reported, when it closes the window) and a failed one adds
\* nothing.  With queuedepth 4 and four completions of alternating status the
\* report shows 2 pass and 2 fail and one window reset has happened.
C14_Counters ==
    /\ [](/\ success_count + failure_count = Counted
          /\ success_count =
                Cardinality({j \in 1..Counted : delivered[j] = "COMPLETED"})
          /\ (queuedepth = 4 /\ Counted = 4 /\ Alternating) =>
                /\ success_count = 2 /\ failure_count = 2
                /\ Len(reports) = 1
                /\ reports[1].pass = 2 /\ reports[1].fail = 2
                /\ transfer_index = 0)
    /\ [][CallbackStats =>
            LET added == IF cb.status = "COMPLETED" THEN cb.actual_length ELSE 0
            IN  /\ IF cb.status = "COMPLETED"
                   THEN /\ success_count' = success_count + 1
                        /\ failure_count' = failure_count
                   ELSE /\ failure_count' = failure_count + 1
                        /\ success_count' = success_count
                /\ IF Len(reports') > Len(reports)
                   THEN reports'[Len(reports')].bytes = transfer_size + added
                   ELSE transfer_size' = transfer_size + added]_vars

\* the scenario: queuedepth 4, success, failure, success, failure
C14_Witness ==
    /\ queuedepth = 4
    /\ delivered = <<"COMPLETED", "TIMED_OUT", "COMPLETED", "TIMED_OUT">>
    /\ cb.pc = "none"
    /\ success_count = 2 /\ failure_count = 2
    /\ Len(reports) = 1
    /\ reports[1].bytes = 2 * reqsize * pktsize

-----------------------------------------------------------------------------
\* C15: the status of a completion has no part in what follows it: with the
\* stop flag clear the callback goes on to submit the same transfer again,
\* failed or not; counting a failure touches neither the main thread nor the
\* stop flag; and the dispatch loop is left only for the stopping sequence,
\* with the stop flag set.
C15_FailureKeepsStreaming ==
    /\ [][(cb.pc = "check" /\ cb'.pc # "check" /\ ~ stop_transfers) =>
             cb' = [cb EXCEPT !.pc = "submit"]]_vars
    /\ [][(cb.pc = "entry" /\ cb'.pc # "entry") =>
             /\ pc' = pc
             /\ stop_transfers' = stop_transfers
             /\ cb' = [cb EXCEPT !.pc = "check"]]_vars
    /\ [][(pc \in {"dispatch", "loop_check"} /\ pc' # pc) =>
             \/ pc' \in {"dispatch", "loop_check"}
             \/ pc' = "main_stopping" /\ stop_transfers]_vars

\* a second failed transfer is about to be submitted again from the dispatch
\* loop
C15_Witness ==
    /\ pc = "dispatch"
    /\ cb.pc = "submit"
    /\ cb.status = "TIMED_OUT"
    /\ failure_count >= 2
    /\ ~ stop_transfers

-----------------------------------------------------------------------------
\* the headers of img from off on declare segments that end exactly at end
RECURSIVE FitsFrom(_, _, _)
FitsFrom(img, off, end) ==
    IF off = end THEN TRUE
    ELSE IF off + 8 > end THEN FALSE
    ELSE LET e == RL32(img, off)
         IN  e[1] = 0 /\ FitsFrom(img, off + 8 + 4 * e[2], end)

\* the file is a well-formed image with a tail of t bytes: 4 with the
\* checksum, 0 without it
WellFormedTail(t) ==
    /\ file # NoFile
    /\ ~ Rejected(file)
    /\ ImageSize(file) >= 4 + t
    /\ FitsFrom(file, 4, ImageSize(file) - t)

RECURSIVE SumBytes(_)
SumBytes(ss) ==
    IF ss = <<>> THEN 0 ELSE ss[1].byteLength + SumBytes(Tail(ss))

\* the parse has run to the end of its loop
Parsed == pc = "upload_return" /\ msg \in {"truncated", "upload_done"}

\* C16 as stated: the byte lengths of the segments parsed from a well-formed
\* image add up to imageLength - 4 - (4 if there is a checksum).  Each
\* segment also has its two header words in the image, so the sum falls short
\* by 8 for every segment.
C16_SegmentsSumToImage ==
    \A t \in {0, 4} :
       (Parsed /\ WellFormedTail(t)) =>
          /\ install_ret = <<0>>
          /\ SumBytes(segs) = length - 4 - t

\* C16: the parse of a well-formed image succeeds and the byte lengths of its
\* segments add up to imageLength - 4 - 8 * (number of segments) - (4 if
\* there is a checksum).
C16_SegmentsAndHeaders ==
    \A t \in {0, 4} :
       (Parsed /\ WellFormedTail(t)) =>
          /\ install_ret = <<0>>
          /\ SumBytes(segs) = length - 4 - 8 * Len(segs) - t

\* two segments of 4 and 4100 bytes and a checksum
C16_Witness ==
    /\ Parsed /\ WellFormedTail(4)
    /\ Len(segs) = 2
    /\ SumBytes(segs) = 4104
    /\ length = 4 + 16 + 4104 + 4

-----------------------------------------------------------------------------
\* slot k is Submitted: libusb holds its transfer, or has just completed it
\* and the callback has not yet counted the completion (the decrement is the
\* first statement of the callback)
SlotSubmitted(k) == inflight[k] \/ (cb.pc = "entry" /\ cb.slot = k)

\* C17: a transfer is handed to libusb only by the initial loop (slot i) or by
\* the callback of its own completion, and only while it is not Submitted; a
\* completion is delivered only for a slot that is Submitted, whichever slot
\* libusb picks; so submissions and completions of a slot alternate and
\* xfers_in_progress is the number of Submitted slots.
C17_SlotAlternation ==
    /\ [](xfers_in_progress = Cardinality({k \in Slots : SlotSubmitted(k)}))
    /\ [][\A k \in Slots :
             (inflight'[k] /\ ~ inflight[k]) =>
                /\ ~ SlotSubmitted(k)
                /\ \/ pc = "main_submit" /\ k = i + 1
                   \/ cb.pc = "submit" /\ cb.slot = k]_vars
    /\ [][\A k \in Slots :
             (inflight[k] /\ ~ inflight'[k]) =>
                /\ cb.pc = "none"
                /\ cb'.pc = "entry" /\ cb'.slot = k]_vars

\* two completions were delivered and one transfer was submitted again; the
\* callback of slot 2 is running while slot 1 is Submitted
C17_Witness ==
    /\ queuedepth = 2
    /\ nsub = 3
    /\ Len(delivered) = 2
    /\ inflight[1]
    /\ cb.pc = "check" /\ cb.slot = 2
    /\ xfers_in_progress = 1

-----------------------------------------------------------------------------
\* slots of the active pool: Submitted, or inside their callback on the way
\* to being submitted again
Active ==
    Cardinality({k \in Slots : inflight[k] \/ (cb.pc # "none" /\ cb.slot = k)})

\* slot k has had its submission attempt and is out of the pool
Dropped(k) ==
    /\ Running \/ pc = "main_submit"
    /\ pc = "main_submit" => k <= i
    /\ ~ inflight[k]
    /\ cb.pc = "none" \/ cb.slot # k

\* C18: a refused submission, in the initial loop or in the callback, leaves
\* xfers_in_progress as it was and is not reported: the initial loop goes on
\* to the next slot and the callback just returns.  The slot is then out of
\* the pool for good, so the pool never grows once the initial loop is over,
\* and after a stop the session still drains to xfers_in_progress = 0.
C18_FailedSubmitDropsSlot ==
    /\ [][(pc = "main_submit" /\ i' = i + 1 /\ inflight' = inflight) =>
             /\ xfers_in_progress' = xfers_in_progress
             /\ pc' = "main_submit"
             /\ stop_transfers' = stop_transfers]_vars
    /\ [][(cb.pc = "submit" /\ inflight' = inflight /\ cb' # cb) =>
             /\ xfers_in_progress' = xfers_in_progress
             /\ cb' = NoCallback
             /\ pc' = pc
             /\ stop_transfers' = stop_transfers]_vars
    /\ [][\A k \in Slots : (Dropped(k) /\ (Running \/ pc = "main_submit")')
                              => Dropped(k)']_vars
    /\ [][(Running /\ Running') => Active' <= Active]_vars
    /\ (stop_transfers /\ Running /\ Active < queuedepth) ~> Drained

\* a submission was refused before any stop: the queue of two runs on one slot
C18_Witness ==
    /\ pc = "dispatch"
    /\ ~ stop_transfers
    /\ queuedepth = 2
    /\ nsub = 2 /\ Len(delivered) >= 1
    /\ cb.pc = "none"
    /\ Active = 1 /\ xfers_in_progress = 1
    /\ \E k \in Slots : Dropped(k)

-----------------------------------------------------------------------------
\* a pass of the segment loop that starts with exactly 4 bytes left takes them
\* as the checksum; one that starts with 1, 2, 3, 5, 6 or 7 bytes left stops
\* where it is; neither issues a control transfer
TailSteps ==
    [][(pc = "install_loop" /\ pc' # pc) =>
          /\ length - offset = 4 =>
                offset' = length /\ pc' = "install_end" /\ ctl' = ctl
          /\ length - offset \in {1, 2, 3, 5, 6, 7} =>
                offset' = offset /\ pc' = "install_end" /\ ctl' = ctl]_vars

\* the loop left with every byte consumed gives success, the loop left with
\* 1, 2, 3, 5, 6 or 7 bytes unconsumed gives the truncation error
TailResults ==
    Parsed =>
       /\ offset = length => install_ret = <<0>> /\ msg = "upload_done"
       /\ length - offset \in {1, 2, 3, 5, 6, 7} =>
             install_ret = <<-1>> /\ msg = "truncated"

\* success is returned only if the parsed segments, with their headers, and
\* the optional checksum fill the image exactly
SuccessOnlyIfExact ==
    (Parsed /\ install_ret = <<0>>) =>
       \E t \in {0, 4} : SegmentsEnd(segs) + t = length

\* C19 as stated: 4 bytes left at a parsing step are consumed as the checksum
\* and the upload succeeds with all bytes consumed; 1 to 7 bytes left, other
\* than 4, stop the parse with no further control transfer and the upload
\* reports truncation; success is reported only when the offset after the
\* segments plus the optional checksum equals the image length.  The last
\* part fails on an image that ends right after a segment header.
C19_TailHandling == TailSteps /\ []TailResults /\ []SuccessOnlyIfExact

-----------------------------------------------------------------------------
\* C20: whatever the image, offset never passes length; the two header words
\* of a segment are read only when all 8 bytes are inside the image; and the
\* payload of every control transfer, from firmware + offset + suboffset on
\* for wLength bytes, lies inside the image buffer, which is still allocated
\* when the transfer is issued.
C20_ReadsInsideImage ==
    /\ [](offset <= length)
    /\ [](pc # "main_uploaded" =>
             \A j \in 1..Len(ctl) :
                /\ ctl[j].data >= 4
                /\ ctl[j].wLength >= 0
                /\ ctl[j].data + ctl[j].wLength <= length)
    /\ [][(pc = "install_loop" /\ offset' = offset + 8) =>
             /\ offset + 8 <= length
             /\ firmware = file /\ length = ImageSize(file)]_vars
    /\ [][ctl' # ctl => firmware = file /\ length = ImageSize(file)]_vars

\* a segment of byte length 0 got its transfer, and the image ended right
\* after the header of the next segment
C20_Witness ==
    /\ Parsed
    /\ Len(segs) = 1 /\ segs[1].byteLength = 0
    /\ Len(ctl) = 1 /\ ctl[1].wLength = 0 /\ ctl[1].data = 12
    /\ length = 20 /\ offset = length

-----------------------------------------------------------------------------
\* the length word in the file header of the k-th parsed segment
EncodedLength(k) == RL32(file, PayloadStart(k) - 8)

\* e * 4, taken as an unbounded integer, is at most n (n below 2^31)
TrueLengthFits(e, n) == e[1] < 16384 /\ ToNat(e) <= n \div 4

\* C21 as stated: although the byte length is encodedLength << 2 in 32-bit
\* unsigned arithmetic, no segment is accepted whose true declared length
\* encodedLength * 4 exceeds the bytes left after its two header words, and an
\* encodedLength of 2^30 or more ends in the truncation error.  The shift
\* drops the two top bits before the comparison, so such a segment is
\* accepted with the wrapped length.
C21_NoWrappedSegment ==
    /\ pc # "main_uploaded" =>
          \A k \in 1..Len(segs) :
             TrueLengthFits(EncodedLength(k), length - PayloadStart(k))
    /\ (Parsed /\ \E k \in 1..Len(segs) : EncodedLength(k)[1] >= 16384) =>
          install_ret = <<-1>> /\ msg = "truncated"

-----------------------------------------------------------------------------
\* what the upload still has in front of it: the steps after the loops, two
\* for every byte of the image behind the place the loops have reached, one
\* more inside the chunk loop, and the steps before the loops
UploadRank ==
    CASE pc = "main_uploaded" -> 0
      [] pc = "upload_return" -> 1
      [] pc = "install_end" -> 2
      [] pc = "install_loop" -> 3 + 2 * (length - offset)
      [] pc = "install_chunk" -> 4 + 2 * (length - offset - suboffset)
      [] pc = "install_sig" -> 3 + 2 * max_size + 1
      [] pc = "install_open" -> 3 + 2 * max_size + 2
      [] pc = "upload_firmware" -> 3 + 2 * max_size + 3

\* C22: whatever the image and whatever the control transfers return, the
\* upload comes back to its caller: every step brings it nearer (UploadRank
\* falls and is never negative).  A pass of the segment loop leaves the loop or moves offset
\* forward, a pass of the chunk loop leaves it (at once for a segment of byte
\* length 0) or moves suboffset forward, offset never goes back, and the
\* payloads sent follow one another in the file.
C22_UploadTerminates ==
    /\ [](UploadRank >= 0)
    /\ [][UploadRank' < UploadRank]_vars
    /\ [][(pc = "install_loop" /\ pc' # pc) =>
             pc' = "install_end" \/ offset' > offset]_vars
    /\ [][(pc = "install_chunk" /\ pc' = "install_chunk") =>
             suboffset' > suboffset]_vars
    /\ [][pc' # "main_uploaded" => offset' >= offset]_vars
    /\ [](\A j \in 1..(Len(ctl) - 1) :
             ctl[j + 1].data >= ctl[j].data + ctl[j].wLength)

\* returned after an empty segment, a two-chunk segment and the checksum
C22_Witness ==
    /\ pc = "main_uploaded"
    /\ upload_ret = <<0>>
    /\ Len(ctl) = 3
    /\ ctl[1].wLength = 0
    /\ ctl[2].wLength = FW_CHUNKSIZE /\ ctl[3].wLength = 4
    /\ ImageSize(file) = 4 + 8 + 8 + FW_CHUNKSIZE + 4 + 4

====
